---- MODULE Spec2Model ----
(***************************************************************************)
(* Model of stbrumme/practical-string-searching: the substring matchers of *)
(* search.c and the line-scan loop of mygrep.c.                            *)
(*                                                                         *)
(* Memory is a sequence of byte values; the C index k of a buffer is the   *)
(* element k+1 of the sequence.  A matcher is an operator over             *)
(*   mem    the bytes addressable from the haystack's base (the haystack   *)
(*          followed by whatever the caller's buffer holds behind it),     *)
(*   start  the offset of the haystack pointer in mem,                     *)
(*   hlen   haystackLength,                                                *)
(*   needle the needle's bytes (needleLength = Len(needle)),               *)
(* and yields [kind, off, reads]: kind "ptr" with the offset returned,     *)
(* "null" for NULL, "fault" when the call runs off the modelled memory;    *)
(* reads is the set of offsets of mem the call dereferences.               *)
(* Haystack and needle pointers are non-null in every modelled call.       *)
(***************************************************************************)
EXTENDS Integers, Sequences, FiniteSets, TLC

VARIABLES
    haystack,   \* the haystack's bytes (mygrep.c: the file's content)
    needle,     \* the needle's bytes
    called,     \* matcher spec: the function applied last ("none" before)
    ret,        \* matcher spec: what that call returned
    algorithm,  \* mygrep.c: enum Algorithm after the UseBest choice
    display,    \* mygrep.c: ShowLines / ShowCountOnly
    current,    \* mygrep.c: the cursor, as an offset from haystack
    numHits,    \* mygrep.c: hit counter
    hits,       \* history: the offsets of the hits so far
    emitted,    \* history: the spans <<left, right>> written to stdout
    exitCode,   \* mygrep.c: main's return value (-1 while running)
    pc,         \* mygrep.c: position of the scan loop
    exact,      \* history: every matcher call so far returned the first
                \* occurrence in [cursor, haystack end), or NULL for none
    skip,       \* KMP: the skip table, a function over the indices written
    ki,         \* KMP: the preprocessing loop's i
    shift,      \* KMP: the needle cursor of the scan
    kpos,       \* KMP: the haystack cursor of the scan, as an offset
    kpc,        \* KMP: position in searchKnuthMorrisPratt
    kret,       \* KMP: the call's result
    ktouched,   \* history: the table indices written or read so far
    bmhPos,     \* BMH: the window start (haystack), as an offset
    bmhLen,     \* BMH: haystackLength, the bytes left from the window start
    bmhPc,      \* BMH: position in searchBoyerMooreHorspool
    bmhRet,     \* BMH: the call's result
    bitapState, \* Bitap: state, as the set of its bits that are 1
    bitapPos,   \* Bitap: the haystack cursor, as an offset
    bitapPc,    \* Bitap: position in searchBitap
    bitapRet,   \* Bitap: the call's result
    rkHashNeedle,   \* Rabin-Karp: hashNeedle
    rkHashHaystack, \* Rabin-Karp: hashHaystack
    rkPos,      \* Rabin-Karp: the window start (haystack), as an offset
    rkPc,       \* Rabin-Karp: position in searchRabinKarp
    rkRet,      \* Rabin-Karp: the call's result
    rkMem       \* Rabin-Karp: the haystack and the bytes that lie behind it

vars == <<haystack, needle, called, ret, algorithm, display, current, numHits,
          hits, emitted, exitCode, pc, exact, skip, ki, shift, kpos, kpc, kret, ktouched,
          bmhPos, bmhLen, bmhPc, bmhRet, bitapState, bitapPos, bitapPc, bitapRet,
          rkHashNeedle, rkHashHaystack, rkPos, rkPc, rkRet, rkMem>>

matchVars == <<called, ret>>
scanVars  == <<algorithm, display, current, numHits, hits, emitted, exitCode, pc,
              exact>>
kmpVars   == <<skip, ki, shift, kpos, kpc, kret, ktouched>>
bmhVars   == <<bmhPos, bmhLen, bmhPc, bmhRet>>
bitapVars == <<bitapState, bitapPos, bitapPc, bitapRet>>
rkVars    == <<rkHashNeedle, rkHashHaystack, rkPos, rkPc, rkRet, rkMem>>
stepVars  == <<bmhVars, bitapVars, rkVars>>

-----------------------------------------------------------------------------
(* Bounds of the model *)

MaxHayLen == 4
MaxNeedleLen == 3
MaxPadLen == 2

NUL == 0
NL == 10

\* byte values of the matcher runs: NUL and two letters
Bytes == {0, 97, 98}

Min(a, b) == IF a < b THEN a ELSE b

SeqsUpTo(S, n) == UNION {[1..k -> S] : k \in 0..n}

\* the byte at C index k
Byte(mem, k) == mem[k + 1]

Ptr(off, reads) == [kind |-> "ptr", off |-> off, reads |-> reads]
Null(reads)     == [kind |-> "null", off |-> 0, reads |-> reads]
Fault(reads)    == [kind |-> "fault", off |-> 0, reads |-> reads]

-----------------------------------------------------------------------------
(* libc *)

RECURSIVE memchr(_, _, _, _)
\* first index in [from, from+n) holding c, or -1; reads byte by byte
memchr(mem, from, c, n) ==
    IF n = 0 THEN -1
    ELSE IF Byte(mem, from) = c THEN from
    ELSE memchr(mem, from + 1, c, n - 1)

\* the offsets memchr(mem, from, c, n) dereferences, r being its result
memchrReads(from, n, r) == IF r = -1 THEN from .. (from + n - 1) ELSE from .. r

\* memcmp(mem + at, needle + nat, n) == 0
memcmpEq(mem, at, ndl, nat, n) ==
    \A k \in 0 .. (n - 1) : Byte(mem, at + k) = Byte(ndl, nat + k)

RECURSIVE strlen(_, _)
\* number of bytes before the first NUL at or after from
strlen(mem, from) == IF Byte(mem, from) = NUL THEN 0 ELSE 1 + strlen(mem, from + 1)

-----------------------------------------------------------------------------
(* searchSimple *)

RECURSIVE SimpleCompare(_, _, _, _)
\* for (; i < needleLength; i++) if (haystack[i] != needle[i]) break;
SimpleCompare(mem, pos, ndl, i) ==
    IF i < Len(ndl) /\ Byte(mem, pos + i) = Byte(ndl, i)
    THEN SimpleCompare(mem, pos, ndl, i + 1)
    ELSE i

RECURSIVE SimpleLoop(_, _, _, _, _)
\* while (haystack != haystackEnd) { compare; return on full match; haystack++ }
SimpleLoop(mem, pos, haystackEnd, ndl, reads) ==
    IF pos = haystackEnd THEN Null(reads)
    ELSE LET i  == SimpleCompare(mem, pos, ndl, 0)
             rd == reads \cup {pos + k : k \in 0 .. Min(i, Len(ndl) - 1)}
         IN  IF i = Len(ndl) THEN Ptr(pos, rd)
             ELSE SimpleLoop(mem, pos + 1, haystackEnd, ndl, rd)

\* haystackLength -= needleLength - 1 is size_t arithmetic: with needleLength = 0
\* it wraps to haystackLength + 1, the value the integer expression gives
searchSimple(mem, start, hlen, ndl) ==
    IF hlen < Len(ndl) THEN Null({})
    ELSE SimpleLoop(mem, start, start + (hlen - (Len(ndl) - 1)), ndl, {})

-----------------------------------------------------------------------------
(* searchNative *)

RECURSIVE NativeLoop(_, _, _, _, _, _)
\* while ((haystack = memchr(haystack, *needle, haystackLength)) != NULL) { ... }
NativeLoop(mem, pos, len, haystackEnd, ndl, reads) ==
    LET n    == Len(ndl)
        p    == memchr(mem, pos, Byte(ndl, 0), len)
        rd1  == reads \cup memchrReads(pos, len, p)
    IN  IF p = -1 THEN Null(rd1)
        ELSE LET rd2 == rd1 \cup {p + n - 1}
             IN  IF Byte(mem, p + n - 1) = Byte(ndl, n - 1)
                    /\ (n = 2 \/ memcmpEq(mem, p + 1, ndl, 1, n - 2))
                 THEN Ptr(p, IF n = 2 THEN rd2 ELSE rd2 \cup ((p + 1) .. (p + n - 2)))
                 ELSE LET rd3 == IF Byte(mem, p + n - 1) = Byte(ndl, n - 1)
                                 THEN rd2 \cup ((p + 1) .. (p + n - 2)) ELSE rd2
                      IN  IF haystackEnd - p = 0 THEN Null(rd3)
                          ELSE NativeLoop(mem, p + 1, haystackEnd - p - 1,
                                          haystackEnd, ndl, rd3)

searchNative(mem, start, hlen, ndl) ==
    IF hlen < Len(ndl) THEN Null({})
    ELSE IF Len(ndl) = 0 THEN Ptr(start, {})
    ELSE IF Len(ndl) = 1
         THEN LET p == memchr(mem, start, Byte(ndl, 0), hlen)
              IN  IF p = -1 THEN Null(memchrReads(start, hlen, p))
                  ELSE Ptr(p, memchrReads(start, hlen, p))
    ELSE NativeLoop(mem, start, hlen - (Len(ndl) - 1),
                    start + (hlen - (Len(ndl) - 1)), ndl, {})

-----------------------------------------------------------------------------
(* searchKnuthMorrisPratt *)

MaxLocalMemory == 256

\* the skip table is a sequence: skip[k] of the code is element k+1
SkipAt(sk, k) == sk[k + 1]

\* number of int entries of the storage the table lives in: localMemory, or
\* the block of malloc(needleLength * sizeof(int))
KmpCapacity(n) == IF n > MaxLocalMemory THEN n ELSE MaxLocalMemory

\* KmpFallback that restarts at 0 on a mismatch instead of following the table
KmpFallbackRestart(ndl, sk, i, v) ==
    IF v > 0 /\ Byte(ndl, i) # Byte(ndl, v - 1) THEN 0 ELSE v

RECURSIVE KmpFallback(_, _, _, _)
\* while (skip[i+1] > 0 && needle[i] != needle[skip[i+1] - 1])
\*   skip[i+1] = skip[skip[i+1] - 1] + 1;        v is skip[i+1]
KmpFallback(ndl, sk, i, v) ==
    IF v > 0 /\ Byte(ndl, i) # Byte(ndl, v - 1)
    THEN KmpFallback(ndl, sk, i, SkipAt(sk, v - 1) + 1)
    ELSE v

RECURSIVE KmpFallbackIdx(_, _, _, _)
\* the table indices that loop reads through skip[skip[i+1] - 1]
KmpFallbackIdx(ndl, sk, i, v) ==
    IF v > 0 /\ Byte(ndl, i) # Byte(ndl, v - 1)
    THEN {v - 1} \cup KmpFallbackIdx(ndl, sk, i, SkipAt(sk, v - 1) + 1)
    ELSE {}

\* one iteration of the preprocessing loop: the table with skip[i+1] set
KmpPrepStep(ndl, sk, i) == Append(sk, KmpFallback(ndl, sk, i, SkipAt(sk, i) + 1))

RECURSIVE KmpTable(_, _, _)
\* skip[0] = -1; for (i = 0; i < needleLength; i++) ...
KmpTable(ndl, sk, i) ==
    IF i < Len(ndl) THEN KmpTable(ndl, KmpPrepStep(ndl, sk, i), i + 1) ELSE sk

RECURSIVE KmpSeek(_, _, _, _, _)
\* while (shift >= 0 && *haystack != needle[shift]) shift = skip[shift];
KmpSeek(mem, pos, ndl, sk, sh) ==
    IF sh >= 0 /\ Byte(mem, pos) # Byte(ndl, sh)
    THEN KmpSeek(mem, pos, ndl, sk, SkipAt(sk, sh))
    ELSE sh

RECURSIVE KmpSeekIdx(_, _, _, _, _)
\* the table indices that loop reads
KmpSeekIdx(mem, pos, ndl, sk, sh) ==
    IF sh >= 0 /\ Byte(mem, pos) # Byte(ndl, sh)
    THEN {sh} \cup KmpSeekIdx(mem, pos, ndl, sk, SkipAt(sk, sh))
    ELSE {}

RECURSIVE KmpScan(_, _, _, _, _, _, _)
\* while (haystack != haystackEnd) { seek; haystack++; shift++; hit? }
KmpScan(mem, pos, haystackEnd, ndl, sk, sh, reads) ==
    IF pos = haystackEnd THEN Null(reads)
    ELSE LET s == KmpSeek(mem, pos, ndl, sk, sh) + 1
         IN  IF s = Len(ndl) THEN Ptr((pos + 1) - s, reads \cup {pos})
             ELSE KmpScan(mem, pos + 1, haystackEnd, ndl, sk, s, reads \cup {pos})

\* the whole call.  A needle of MaxLocalMemory bytes or more makes the
\* preprocessing write skip[needleLength] behind the table's storage: the
\* outcome is undefined ("fault"); KmpSpec runs that case step by step.
searchKnuthMorrisPratt(mem, start, hlen, ndl) ==
    IF hlen < Len(ndl) THEN Null({})
    ELSE IF Len(ndl) = 0 THEN Ptr(start, {})
    ELSE IF Len(ndl) >= KmpCapacity(Len(ndl)) THEN Fault({})
    ELSE KmpScan(mem, start, start + hlen, ndl, KmpTable(ndl, <<-1>>, 0), 0, {})

-----------------------------------------------------------------------------
(* searchBoyerMooreHorspool *)

NumChar == 256

\* a fill loop that also visits the needle's last position (pos <= lastPos)
RECURSIVE BmhFillAll(_, _, _)
BmhFillAll(ndl, tab, pos) ==
    IF pos < Len(ndl)
    THEN BmhFillAll(ndl, [tab EXCEPT ![Byte(ndl, pos)] = (Len(ndl) - 1) - pos], pos + 1)
    ELSE tab

RECURSIVE BmhFill(_, _, _)
\* for (pos = 0; pos < lastPos; pos++) skip[(unsigned char)needle[pos]] = lastPos - pos;
BmhFill(ndl, tab, pos) ==
    IF pos < Len(ndl) - 1
    THEN BmhFill(ndl, [tab EXCEPT ![Byte(ndl, pos)] = (Len(ndl) - 1) - pos], pos + 1)
    ELSE tab

\* for (i = 0; i < NumChar; i++) skip[i] = needleLength; then the fill loop
BmhSkip(ndl) == BmhFill(ndl, [b \in 0 .. (NumChar - 1) |-> Len(ndl)], 0)

RECURSIVE BmhCompare(_, _, _, _)
\* for (i = lastPos; haystack[i] == needle[i]; i--) if (i == 0) return haystack;
\* yields -1 on a full match, else the index of the mismatch
BmhCompare(mem, pos, ndl, i) ==
    IF Byte(mem, pos + i) = Byte(ndl, i)
    THEN IF i = 0 THEN -1 ELSE BmhCompare(mem, pos, ndl, i - 1)
    ELSE i

RECURSIVE BmhLoop(_, _, _, _, _, _)
\* while (haystackLength >= needleLength) { compare; jump by skip[marker] }
\* haystackLength is a size_t: a jump larger than what is left would wrap it
BmhLoop(mem, pos, len, ndl, tab, reads) ==
    IF len >= Len(ndl)
    THEN LET lastPos == Len(ndl) - 1
             i       == BmhCompare(mem, pos, ndl, lastPos)
             rd      == reads \cup ((pos + (IF i = -1 THEN 0 ELSE i)) .. (pos + lastPos))
             jump    == tab[Byte(mem, pos + lastPos)]
         IN  IF i = -1 THEN Ptr(pos, rd)
             ELSE IF jump > len THEN Fault(rd)
             ELSE BmhLoop(mem, pos + jump, len - jump, ndl, tab, rd)
    ELSE Null(reads)

searchBoyerMooreHorspool(mem, start, hlen, ndl) ==
    IF hlen < Len(ndl) THEN Null({})
    ELSE IF Len(ndl) = 0 THEN Ptr(start, {})
    ELSE BmhLoop(mem, start, hlen, ndl, BmhSkip(ndl), {})

-----------------------------------------------------------------------------
(* searchBitap: an unsigned int is the set of its bits that are 1 *)

WordBits == 32
AlphabetSize == 256

MaxBitWidth == WordBits - 1
AllOnes == 0 .. (WordBits - 1)

\* x << 1 on an unsigned int
ShiftLeft1(w) == {b + 1 : b \in {c \in w : c + 1 < WordBits}}

RECURSIVE BitapMaskFill(_, _, _)
\* for (i = 0; i < needleLength; i++) masks[(unsigned char)needle[i]] &= ~(1 << i);
BitapMaskFill(ndl, masks, i) ==
    IF i < Len(ndl)
    THEN BitapMaskFill(ndl, [masks EXCEPT ![Byte(ndl, i)] = @ \ {i}], i + 1)
    ELSE masks

\* for (i = 0; i < AlphabetSize; i++) masks[i] = ~0; then the fill loop
BitapMasks(ndl) == BitapMaskFill(ndl, [b \in 0 .. (AlphabetSize - 1) |-> AllOnes], 0)

\* an update that shifts before it ors the mask in
BitapShiftThenOr(state, masks, byte) == ShiftLeft1(state) \cup masks[byte]

\* state |= masks[byte]; state <<= 1;
BitapUpdate(state, masks, byte) == ShiftLeft1(state \cup masks[byte])

RECURSIVE BitapLoop(_, _, _, _, _, _, _)
\* while (haystack != haystackEnd) { update; if ((state & FullMatch) == 0) return ... }
BitapLoop(mem, pos, haystackEnd, n, masks, state, reads) ==
    IF pos = haystackEnd THEN Null(reads)
    ELSE LET st == BitapUpdate(state, masks, Byte(mem, pos))
         IN  IF n \notin st THEN Ptr((pos - n) + 1, reads \cup {pos})
             ELSE BitapLoop(mem, pos + 1, haystackEnd, n, masks, st, reads \cup {pos})

-----------------------------------------------------------------------------
(* searchBitap, continued *)

searchBitap(mem, start, hlen, ndl) ==
    IF hlen < Len(ndl) THEN Null({})
    ELSE IF Len(ndl) = 0 THEN Ptr(start, {})
    ELSE IF Len(ndl) > MaxBitWidth THEN searchNative(mem, start, hlen, ndl)
    ELSE BitapLoop(mem, start, start + hlen, Len(ndl), BitapMasks(ndl), AllOnes \ {0}, {})

-----------------------------------------------------------------------------
(* searchRabinKarp *)

\* the value of a char added to an unsigned int: char is signed.  The hashes
\* are unsigned int sums; with the byte values of this model no sum leaves
\* 0 .. 2^31 - 1, so the integer sum is the value modulo 2^32.
SChar(b) == IF b >= 128 THEN b - 256 ELSE b

RECURSIVE HashSum(_, _, _)
\* sum of the n chars of s from index from
HashSum(s, from, n) == IF n = 0 THEN 0 ELSE SChar(Byte(s, from)) + HashSum(s, from + 1, n - 1)

RECURSIVE RabinKarpInit(_, _, _, _)
\* for (i = 0; i < needleLength; i++) { if (!haystack[i]) return NULL; sum up }
\* yields "ok", "null" (a NUL byte was met) or "fault" (index behind mem), and
\* the number of haystack bytes read
RabinKarpInit(mem, p, n, i) ==
    IF i = n THEN [st |-> "ok", cnt |-> i]
    ELSE IF p + i >= Len(mem) THEN [st |-> "fault", cnt |-> i]
    ELSE IF Byte(mem, p + i) = NUL THEN [st |-> "null", cnt |-> i + 1]
    ELSE RabinKarpInit(mem, p, n, i + 1)

RECURSIVE RabinKarpLoop(_, _, _, _, _, _, _)
\* while (haystack != haystackEnd) { hash equal and memcmp: return; roll the hash }
RabinKarpLoop(mem, pos, haystackEnd, ndl, hashNeedle, hashHaystack, reads) ==
    LET n == Len(ndl) IN
    IF pos = haystackEnd THEN Null(reads)
    ELSE IF hashHaystack = hashNeedle /\ pos + n > Len(mem) THEN Fault(reads)
    ELSE IF hashHaystack = hashNeedle /\ memcmpEq(mem, pos, ndl, 0, n)
         THEN Ptr(pos, reads \cup (pos .. (pos + n - 1)))
    ELSE LET rd == IF hashHaystack = hashNeedle
                   THEN reads \cup (pos .. (pos + n - 1)) ELSE reads
         IN  IF pos + n >= Len(mem) THEN Fault(rd)
             ELSE RabinKarpLoop(mem, pos + 1, haystackEnd, ndl, hashNeedle,
                      (hashHaystack + SChar(Byte(mem, pos + n))) - SChar(Byte(mem, pos)),
                      rd \cup {pos + n, pos})

searchRabinKarp(mem, start, hlen, ndl) ==
    IF hlen < Len(ndl) THEN Null({})
    ELSE IF Len(ndl) = 0 THEN Ptr(start, {})
    ELSE LET n   == Len(ndl)
             haystackEnd == ((start + hlen) - n) + 1
             p   == memchr(mem, start, Byte(ndl, 0), hlen)
             rd1 == memchrReads(start, hlen, p)
         IN  IF p = -1 THEN Null(rd1)
             ELSE LET ini == RabinKarpInit(mem, p, n, 0)
                      rd2 == rd1 \cup (p .. (p + ini.cnt - 1))
                  IN  IF ini.st = "fault" THEN Fault(rd2)
                      ELSE IF ini.st = "null" THEN Null(rd2)
                      ELSE RabinKarpLoop(mem, p, haystackEnd, ndl,
                               HashSum(ndl, 0, n), HashSum(mem, p, n), rd2)

-----------------------------------------------------------------------------
(* The variants for C strings: mem and nmem hold a terminating NUL *)

\* the bytes of the C string at the start of s
CStr(s) == SubSeq(s, 1, strlen(s, 0))

RECURSIVE SimpleStringCompare(_, _, _, _)
\* while (needle[i]) { if (haystack[i] != needle[i]) break; i++; }
SimpleStringCompare(mem, pos, nmem, i) ==
    IF Byte(nmem, i) # NUL /\ Byte(mem, pos + i) = Byte(nmem, i)
    THEN SimpleStringCompare(mem, pos, nmem, i + 1)
    ELSE i

RECURSIVE SimpleStringLoop(_, _, _, _)
\* while (*haystack) { compare; if (!needle[i]) return haystack; haystack++; }
SimpleStringLoop(mem, pos, nmem, reads) ==
    IF Byte(mem, pos) = NUL THEN Null(reads \cup {pos})
    ELSE LET i  == SimpleStringCompare(mem, pos, nmem, 0)
             rd == reads \cup {pos} \cup
                   {pos + k : k \in 0 .. (IF Byte(nmem, i) = NUL THEN i - 1 ELSE i)}
         IN  IF Byte(nmem, i) = NUL THEN Ptr(pos, rd)
             ELSE SimpleStringLoop(mem, pos + 1, nmem, rd)

searchSimpleString(mem, start, nmem) == SimpleStringLoop(mem, start, nmem, {})

searchKnuthMorrisPrattString(mem, start, nmem) ==
    LET ndl == CStr(nmem) IN
    IF Len(ndl) = 0 THEN Ptr(start, {})
    ELSE IF Len(ndl) >= KmpCapacity(Len(ndl)) THEN Fault({})
    ELSE LET r == KmpScan(mem, start, start + strlen(mem, start), ndl,
                          KmpTable(ndl, <<-1>>, 0), 0, {})
         IN  IF r.kind = "null" THEN Null(r.reads \cup {start + strlen(mem, start)})
             ELSE r

searchBoyerMooreHorspoolString(mem, start, nmem) ==
    LET r == searchBoyerMooreHorspool(mem, start, strlen(mem, start), CStr(nmem))
    IN  [r EXCEPT !.reads = @ \cup (start .. (start + strlen(mem, start)))]

searchBitapString(mem, start, nmem) ==
    LET ndl == CStr(nmem) IN
    IF Len(ndl) = 0 THEN Ptr(start, {})
    ELSE IF Len(ndl) > MaxBitWidth THEN searchSimpleString(mem, start, nmem)
    ELSE LET r == BitapLoop(mem, start, start + strlen(mem, start), Len(ndl),
                            BitapMasks(ndl), AllOnes \ {0}, {})
         IN  IF r.kind = "null" THEN Null(r.reads \cup {start + strlen(mem, start)})
             ELSE r

RECURSIVE RabinKarpStringScan(_, _, _, _)
\* while (*scanNeedle && *scanHaystack) { hashNeedle += ...; hashHaystack += ...; }
\* yields the number of bytes of each that are summed from index 1
RabinKarpStringScan(mem, p, nmem, k) ==
    IF Byte(nmem, k) # NUL /\ Byte(mem, p + k) # NUL
    THEN RabinKarpStringScan(mem, p, nmem, k + 1)
    ELSE k

RECURSIVE RabinKarpStringLoop(_, _, _, _, _, _, _)
\* for (;;) { hash equal and memcmp: return; if (!*scanHaystack) break; roll }
RabinKarpStringLoop(mem, pos, ndl, hashNeedle, hashHaystack, scanHaystack, reads) ==
    IF hashHaystack = hashNeedle /\ memcmpEq(mem, pos, ndl, 0, Len(ndl))
    THEN Ptr(pos, reads \cup (pos .. (pos + Len(ndl) - 1)))
    ELSE IF Byte(mem, scanHaystack) = NUL THEN Null(reads \cup {scanHaystack})
    ELSE RabinKarpStringLoop(mem, pos + 1, ndl, hashNeedle,
             (hashHaystack - SChar(Byte(mem, pos))) + SChar(Byte(mem, scanHaystack)),
             scanHaystack + 1, reads \cup {pos, scanHaystack})

searchRabinKarpString(mem, start, nmem) ==
    IF Byte(nmem, 0) = NUL THEN Ptr(start, {})
    ELSE LET slen == strlen(mem, start)
             \* strchr(haystack, *needle): the terminator is part of the string
             p    == memchr(mem, start, Byte(nmem, 0), slen)
         IN  IF p = -1 THEN Null(start .. (start + slen))
             ELSE LET k == RabinKarpStringScan(mem, p, nmem, 1)
                      rd == start .. (p + k)
                  IN  IF Byte(nmem, k) # NUL THEN Null(rd)
                      ELSE RabinKarpStringLoop(mem, p, SubSeq(nmem, 1, k),
                               HashSum(nmem, 0, k), HashSum(mem, p, k), p + k, rd)

-----------------------------------------------------------------------------
(* Matcher runs: one call of one search function on a haystack and a needle *)

IdleScan ==
    /\ algorithm = "none" /\ display = "none" /\ current = 0 /\ numHits = 0
    /\ hits = <<>> /\ emitted = <<>> /\ exitCode = -1 /\ pc = "idle"
    /\ exact = TRUE

IdleKmp ==
    /\ skip = <<>> /\ ki = 0 /\ shift = 0 /\ kpos = 0 /\ kpc = "idle"
    /\ kret = Null({}) /\ ktouched = {}

IdleMatch == called = "none" /\ ret = Null({})

IdleBmh == bmhPos = 0 /\ bmhLen = 0 /\ bmhPc = "idle" /\ bmhRet = Null({})

IdleBitap ==
    bitapState = {} /\ bitapPos = 0 /\ bitapPc = "idle" /\ bitapRet = Null({})

IdleRk ==
    /\ rkHashNeedle = 0 /\ rkHashHaystack = 0 /\ rkPos = 0 /\ rkPc = "idle"
    /\ rkRet = Null({}) /\ rkMem = <<>>

IdleStep == IdleBmh /\ IdleBitap /\ IdleRk

Init ==
    /\ haystack \in SeqsUpTo(Bytes, MaxHayLen)
    /\ needle \in SeqsUpTo(Bytes, MaxNeedleLen)
    /\ IdleMatch /\ IdleScan /\ IdleKmp /\ IdleStep

\* what lies behind the haystack in the caller's memory is not the callee's
\* to read; a call that reads it can get any bytes, or a fault behind them
Pads == SeqsUpTo(Bytes, MaxPadLen)

Return(name, r) ==
    /\ called' = name
    /\ ret' = r
    /\ UNCHANGED <<haystack, needle, scanVars, kmpVars, stepVars>>

CallSimple ==
    /\ called = "none"
    /\ \E pad \in Pads :
         Return("searchSimple", searchSimple(haystack \o pad, 0, Len(haystack), needle))

CallNative ==
    /\ called = "none"
    /\ \E pad \in Pads :
         Return("searchNative", searchNative(haystack \o pad, 0, Len(haystack), needle))

CallKnuthMorrisPratt ==
    /\ called = "none"
    /\ \E pad \in Pads :
         Return("searchKnuthMorrisPratt",
                searchKnuthMorrisPratt(haystack \o pad, 0, Len(haystack), needle))

CallBoyerMooreHorspool ==
    /\ called = "none"
    /\ \E pad \in Pads :
         Return("searchBoyerMooreHorspool",
                searchBoyerMooreHorspool(haystack \o pad, 0, Len(haystack), needle))

CallBitap ==
    /\ called = "none"
    /\ \E pad \in Pads :
         Return("searchBitap", searchBitap(haystack \o pad, 0, Len(haystack), needle))

CallRabinKarp ==
    /\ called = "none"
    /\ \E pad \in Pads :
         Return("searchRabinKarp",
                searchRabinKarp(haystack \o pad, 0, Len(haystack), needle))

\* the C-string variants get both arguments with their terminating NUL
CallSimpleString ==
    /\ called = "none"
    /\ Return("searchSimpleString",
              searchSimpleString(haystack \o <<NUL>>, 0, needle \o <<NUL>>))

CallKnuthMorrisPrattString ==
    /\ called = "none"
    /\ Return("searchKnuthMorrisPrattString",
              searchKnuthMorrisPrattString(haystack \o <<NUL>>, 0, needle \o <<NUL>>))

CallBoyerMooreHorspoolString ==
    /\ called = "none"
    /\ Return("searchBoyerMooreHorspoolString",
              searchBoyerMooreHorspoolString(haystack \o <<NUL>>, 0, needle \o <<NUL>>))

CallBitapString ==
    /\ called = "none"
    /\ Return("searchBitapString",
              searchBitapString(haystack \o <<NUL>>, 0, needle \o <<NUL>>))

CallRabinKarpString ==
    /\ called = "none"
    /\ Return("searchRabinKarpString",
              searchRabinKarpString(haystack \o <<NUL>>, 0, needle \o <<NUL>>))

Next ==
    \/ CallSimple
    \/ CallNative
    \/ CallKnuthMorrisPratt
    \/ CallBoyerMooreHorspool
    \/ CallBitap
    \/ CallRabinKarp
    \/ CallSimpleString
    \/ CallKnuthMorrisPrattString
    \/ CallBoyerMooreHorspoolString
    \/ CallBitapString
    \/ CallRabinKarpString

Spec == Init /\ [][Next]_vars

-----------------------------------------------------------------------------
(* What the matchers are measured against *)

LengthBased == {"searchSimple", "searchNative", "searchKnuthMorrisPratt",
                "searchBoyerMooreHorspool", "searchBitap", "searchRabinKarp"}

StringBased == {"searchSimpleString", "searchKnuthMorrisPrattString",
                "searchBoyerMooreHorspoolString", "searchBitapString",
                "searchRabinKarpString"}

\* the needle N occurs in H at offset o
Occurs(H, N, o) ==
    /\ o >= 0
    /\ o + Len(N) <= Len(H)
    /\ \A k \in 1 .. Len(N) : H[o + k] = N[k]

Occurrences(H, N) == {o \in 0 .. Len(H) : Occurs(H, N, o)}

SetMin(S) == CHOOSE x \in S : \A y \in S : x <= y

\* the smallest offset at which N occurs in H, -1 when there is none
FirstOccurrence(H, N) ==
    IF Occurrences(H, N) = {} THEN -1 ELSE SetMin(Occurrences(H, N))

\* the call returned the first occurrence, or NULL when there is none
ReturnsFirst(r, H, N) ==
    IF FirstOccurrence(H, N) = -1 THEN r.kind = "null"
    ELSE r.kind = "ptr" /\ r.off = FirstOccurrence(H, N)

-----------------------------------------------------------------------------
(* mygrep.c: the line scan of main *)

MaxFileLen == 4
MaxPatternLen == 2

\* bytes of the scanned files, and of the pattern (argv[1] holds no NUL)
FileBytes == {NUL, NL, 97}
PatternBytes == FileBytes \ {NUL}

\* the scans of this model end within so many hits unless they never end
MaxHits == MaxFileLen + 2

BestCutoff == 16

\* the algorithms of this repository that --flags select; UseBest is the default
Choices == {"UseBest", "UseSimple", "UseNative", "UseKnuthMorrisPratt",
            "UseBoyerMooreHorspool", "UseBitap", "UseRabinKarp"}

\* if (algorithm == UseBest) algorithm = needleLength <= 16 ? UseNative : UseBoyerMooreHorspool
SelectAlgorithm(choice, needleLength) ==
    IF choice = "UseBest"
    THEN IF needleLength <= BestCutoff THEN "UseNative" ELSE "UseBoyerMooreHorspool"
    ELSE choice

\* data[filesize] = '\n'; data[filesize + 1] = 0;
Data(file) == file \o <<NL, NUL>>

\* switch (algorithm): the call on (current, bytesLeft, needle, needleLength)
Matcher(alg, mem, cur, bytesLeft, ndl) ==
    CASE alg = "UseSimple"             -> searchSimple(mem, cur, bytesLeft, ndl)
      [] alg = "UseNative"             -> searchNative(mem, cur, bytesLeft, ndl)
      [] alg = "UseKnuthMorrisPratt"   -> searchKnuthMorrisPratt(mem, cur, bytesLeft, ndl)
      [] alg = "UseBoyerMooreHorspool" -> searchBoyerMooreHorspool(mem, cur, bytesLeft, ndl)
      [] alg = "UseBitap"              -> searchBitap(mem, cur, bytesLeft, ndl)
      [] alg = "UseRabinKarp"          -> searchRabinKarp(mem, cur, bytesLeft, ndl)

RECURSIVE RightBoundary(_, _, _)
\* while (right != haystackEnd && *right != '\n') right++;
RightBoundary(mem, right, haystackEnd) ==
    IF right # haystackEnd /\ Byte(mem, right) # NL
    THEN RightBoundary(mem, right + 1, haystackEnd)
    ELSE right

RECURSIVE LeftScan(_, _)
\* while (left != haystack && *left != '\n') left--;
LeftScan(mem, left) ==
    IF left # 0 /\ Byte(mem, left) # NL THEN LeftScan(mem, left - 1) ELSE left

\* LeftBoundary without the step past the newline that ends the line before
LeftBoundaryAtNewline(mem, cur, haystackEnd) == LeftScan(mem, cur)

\* the scan above, then: if (*left == '\n' && left != haystackEnd) left++;
LeftBoundary(mem, cur, haystackEnd) ==
    LET left == LeftScan(mem, cur)
    IN  IF Byte(mem, left) = NL /\ left # haystackEnd THEN left + 1 ELSE left

\* the first occurrence of ndl in H at or after cur, -1 when there is none
FirstFrom(H, ndl, cur) ==
    LET S == {o \in Occurrences(H, ndl) : o >= cur}
    IN  IF S = {} THEN -1 ELSE SetMin(S)

\* H = "foo\nbar needle baz\nqux", N = "needle"
ExampleFile == <<102, 111, 111, 10, 98, 97, 114, 32, 110, 101, 101, 100, 108, 101,
                 32, 98, 97, 122, 10, 113, 117, 120>>
ExamplePattern == <<110, 101, 101, 100, 108, 101>>

\* the file is not empty (main returns -4 on an empty file)
ScanInit ==
    /\ \/ /\ haystack \in SeqsUpTo(FileBytes, MaxFileLen) \ {<<>>}
          /\ needle \in SeqsUpTo(PatternBytes, MaxPatternLen)
       \/ /\ haystack = ExampleFile
          /\ needle = ExamplePattern
    /\ \E choice \in Choices : algorithm = SelectAlgorithm(choice, Len(needle))
    /\ display \in {"ShowLines", "ShowCountOnly"}
    /\ current = 0 /\ numHits = 0 /\ hits = <<>> /\ emitted = <<>>
    /\ exitCode = -1 /\ pc = "Scanning" /\ exact = TRUE
    /\ IdleMatch /\ IdleKmp /\ IdleStep

\* one pass of for (;;) up to numHits++: the matcher call and its outcome
Search ==
    /\ pc = "Scanning"
    /\ numHits < MaxHits
    /\ LET bytesDone == current
           bytesLeft == Len(haystack) - bytesDone
           r == Matcher(algorithm, Data(haystack), current, bytesLeft, needle)
           first == FirstFrom(haystack, needle, current)
       IN  /\ exact' = (exact /\ IF first = -1 THEN r.kind = "null"
                                 ELSE r.kind = "ptr" /\ r.off = first)
           /\ IF r.kind = "ptr"
              THEN /\ current' = r.off
                   /\ numHits' = numHits + 1
                   /\ hits' = Append(hits, r.off)
                   /\ pc' = "Found"
                   /\ UNCHANGED exitCode
              ELSE /\ pc' = IF r.kind = "null" THEN "Exhausted" ELSE "Crashed"
                   \* return numHits == 0 ? 1 : 0;
                   /\ exitCode' = IF r.kind # "null" THEN exitCode
                                  ELSE IF numHits = 0 THEN 1 ELSE 0
                   /\ UNCHANGED <<current, numHits, hits>>
    /\ UNCHANGED <<haystack, needle, algorithm, display, emitted, matchVars, kmpVars, stepVars>>

\* display == ShowCountOnly: current = right; continue;
CountLine ==
    /\ pc = "Found"
    /\ display = "ShowCountOnly"
    /\ current' = RightBoundary(Data(haystack), current, Len(haystack))
    /\ pc' = "Scanning"
    /\ UNCHANGED <<haystack, needle, algorithm, display, numHits, hits, emitted,
                   exitCode, exact, matchVars, kmpVars, stepVars>>

\* display == ShowLines: the line [left, right) goes to stdout, current = right
EmitLine ==
    /\ pc = "Found"
    /\ display = "ShowLines"
    /\ LET right == RightBoundary(Data(haystack), current, Len(haystack))
           left  == LeftBoundary(Data(haystack), current, Len(haystack))
       IN  /\ emitted' = Append(emitted, <<left, right>>)
           /\ current' = right
    /\ pc' = "Scanning"
    /\ UNCHANGED <<haystack, needle, algorithm, display, numHits, hits,
                   exitCode, exact, matchVars, kmpVars, stepVars>>

\* size_t lineLength = right - left wraps when right < left: fwrite is then
\* asked for more bytes than the process owns, and may end the process
EmitCrash ==
    /\ pc = "Found"
    /\ display = "ShowLines"
    /\ LET right == RightBoundary(Data(haystack), current, Len(haystack))
           left  == LeftBoundary(Data(haystack), current, Len(haystack))
       IN  /\ right < left
           /\ emitted' = Append(emitted, <<left, right>>)
    /\ pc' = "Crashed"
    /\ UNCHANGED <<haystack, needle, algorithm, display, current, numHits, hits,
                   exitCode, exact, matchVars, kmpVars, stepVars>>

ScanNext == Search \/ CountLine \/ EmitLine \/ EmitCrash

ScanSpec == ScanInit /\ [][ScanNext]_vars

-----------------------------------------------------------------------------
(* searchKnuthMorrisPratt, step by step *)

MaxKmpHayLen == 6
MaxKmpNeedleLen == 4

KmpBytes == {97, 98}

\* H = "aaaaaaab", N = "aaab"
ExampleHaystack == <<97, 97, 97, 97, 97, 97, 97, 98>>
ExampleNeedle == <<97, 97, 97, 98>>

\* needles around the size of localMemory: "abab..." of n bytes
LongNeedle(n) == [k \in 1 .. n |-> IF k % 2 = 1 THEN 97 ELSE 98]
LongLengths == (MaxLocalMemory - 1) .. (MaxLocalMemory + 1)

KmpInit ==
    /\ \/ /\ haystack \in SeqsUpTo(KmpBytes, MaxKmpHayLen)
          /\ needle \in SeqsUpTo(KmpBytes, MaxKmpNeedleLen)
       \/ /\ haystack = ExampleHaystack
          /\ needle = ExampleNeedle
       \/ \E n \in LongLengths :
            /\ needle = LongNeedle(n)
            /\ haystack = LongNeedle(n)
    /\ skip = <<>> /\ ki = 0 /\ shift = 0 /\ kpos = 0 /\ kpc = "entry"
    /\ kret = Null({}) /\ ktouched = {}
    /\ IdleMatch /\ IdleScan /\ IdleStep

KmpFrame == UNCHANGED <<haystack, needle, matchVars, scanVars, stepVars>>

\* haystackLength < needleLength: return NULL
KmpTooShort ==
    /\ kpc = "entry"
    /\ Len(haystack) < Len(needle)
    /\ kret' = Null({})
    /\ kpc' = "done"
    /\ UNCHANGED <<skip, ki, shift, kpos, ktouched>>
    /\ KmpFrame

\* needleLength == 0: return haystack
KmpEmptyNeedle ==
    /\ kpc = "entry"
    /\ Len(haystack) >= Len(needle)
    /\ Len(needle) = 0
    /\ kret' = Ptr(0, {})
    /\ kpc' = "done"
    /\ UNCHANGED <<skip, ki, shift, kpos, ktouched>>
    /\ KmpFrame

\* skip = localMemory, or the malloc'ed block; skip[0] = -1; i = 0
KmpAllocate ==
    /\ kpc = "entry"
    /\ Len(haystack) >= Len(needle)
    /\ Len(needle) # 0
    /\ skip' = <<-1>>
    /\ ktouched' = {0}
    /\ ki' = 0
    /\ kpc' = "prep"
    /\ UNCHANGED <<shift, kpos, kret>>
    /\ KmpFrame

\* needleLength > MaxLocalMemory and malloc returns NULL: return NULL
KmpAllocFail ==
    /\ kpc = "entry"
    /\ Len(haystack) >= Len(needle)
    /\ Len(needle) > MaxLocalMemory
    /\ kret' = Null({})
    /\ kpc' = "done"
    /\ UNCHANGED <<skip, ki, shift, kpos, ktouched>>
    /\ KmpFrame

\* one iteration of the preprocessing loop
KmpPrep ==
    /\ kpc = "prep"
    /\ ki < Len(needle)
    /\ skip' = KmpPrepStep(needle, skip, ki)
    /\ ktouched' = ktouched \cup {ki, ki + 1}
                     \cup KmpFallbackIdx(needle, skip, ki, SkipAt(skip, ki) + 1)
    /\ ki' = ki + 1
    /\ UNCHANGED <<shift, kpos, kpc, kret>>
    /\ KmpFrame

\* the same iteration when skip[i + 1] lies behind the table's storage: the
\* write hits foreign memory, and the call may end there instead of going on
KmpPrepFault ==
    /\ kpc = "prep"
    /\ ki < Len(needle)
    /\ ki + 1 >= KmpCapacity(Len(needle))
    /\ ktouched' = ktouched \cup {ki, ki + 1}
    /\ kret' = Fault({})
    /\ kpc' = "done"
    /\ UNCHANGED <<skip, ki, shift, kpos>>
    /\ KmpFrame

\* the loop is left: result = NULL, haystackEnd = haystack + haystackLength, shift = 0
KmpPrepDone ==
    /\ kpc = "prep"
    /\ ki = Len(needle)
    /\ shift' = 0
    /\ kpos' = 0
    /\ kpc' = "scan"
    /\ UNCHANGED <<skip, ki, kret, ktouched>>
    /\ KmpFrame

\* one iteration of while (haystack != haystackEnd)
KmpStep ==
    /\ kpc = "scan"
    /\ kpos # Len(haystack)
    /\ LET s == KmpSeek(haystack, kpos, needle, skip, shift) + 1
       IN  /\ shift' = s
           /\ kpos' = kpos + 1
           /\ ktouched' = ktouched \cup KmpSeekIdx(haystack, kpos, needle, skip, shift)
           /\ IF s = Len(needle)
              THEN /\ kret' = Ptr((kpos + 1) - s, 0 .. kpos)
                   /\ kpc' = "done"
              ELSE UNCHANGED <<kret, kpc>>
    /\ UNCHANGED <<skip, ki>>
    /\ KmpFrame

\* haystack == haystackEnd: free the heap block, return NULL
KmpNotFound ==
    /\ kpc = "scan"
    /\ kpos = Len(haystack)
    /\ kret' = Null(0 .. (kpos - 1))
    /\ kpc' = "done"
    /\ UNCHANGED <<skip, ki, shift, kpos, ktouched>>
    /\ KmpFrame

KmpNext ==
    \/ KmpTooShort
    \/ KmpEmptyNeedle
    \/ KmpAllocate
    \/ KmpAllocFail
    \/ KmpPrep
    \/ KmpPrepFault
    \/ KmpPrepDone
    \/ KmpStep
    \/ KmpNotFound

KmpSpec == KmpInit /\ [][KmpNext]_vars

\* length of the longest proper prefix of s[1..i] that is also its suffix
LongestBorder(s, i) ==
    LET B == {k \in 0 .. (i - 1) : \A j \in 1 .. k : s[j] = s[(i - k) + j]}
    IN  CHOOSE k \in B : \A m \in B : m <= k

\* length of the longest prefix of N that is a suffix of H[1..j]
LongestPrefixSuffix(N, H, j) ==
    LET B == {k \in 0 .. Min(Len(N), j) : \A m \in 1 .. k : N[m] = H[(j - k) + m]}
    IN  CHOOSE k \in B : \A m \in B : m <= k

-----------------------------------------------------------------------------
(* Lines of a file *)

\* the spans <<left, right>> of the lines of H: maximal runs without a newline
Lines(H) ==
    {sp \in (0 .. Len(H)) \X (0 .. Len(H)) :
        /\ sp[1] <= sp[2]
        /\ (sp[1] = 0 \/ H[sp[1]] = NL)
        /\ (sp[2] = Len(H) \/ H[sp[2] + 1] = NL)
        /\ \A k \in (sp[1] + 1) .. sp[2] : H[k] # NL}

\* the lines that hold an occurrence of N
MatchingLines(H, N) ==
    {sp \in Lines(H) : \E o \in Occurrences(H, N) : sp[1] <= o /\ o + Len(N) <= sp[2]}

\* the number of the line offset P lies in; a newline byte ends its line
LineOf(H, P) == Cardinality({k \in 1 .. P : H[k] = NL})

HasByte(s, b) == \E k \in 1 .. Len(s) : s[k] = b

-----------------------------------------------------------------------------
(* Claims *)

\* C1: for |N| <= |H| every length-based matcher returns the smallest offset
\* at which N occurs in H, and NULL when N does not occur: all six agree.
C1_Parity ==
    (called \in LengthBased /\ Len(needle) <= Len(haystack))
        => ReturnsFirst(ret, haystack, needle)

\* C2: no length-based matcher dereferences a haystack index outside
\* [0, haystackLength).
C2_ReadsInBounds ==
    called \in LengthBased => ret.reads \subseteq 0 .. (Len(haystack) - 1)

\* C3: in a haystack with NUL bytes every length-based matcher still returns
\* the first occurrence when it contains a NUL byte or lies after one.
C3_NulSafe ==
    LET first == FirstOccurrence(haystack, needle)
    IN  (/\ called \in LengthBased
         /\ first # -1
         /\ \E k \in 1 .. (first + Len(needle)) : haystack[k] = NUL)
            => (ret.kind = "ptr" /\ ret.off = first)

\* C4: with an empty needle every public search function, length-based or
\* for C strings, returns the haystack start, whatever the haystack holds.
C4_EmptyNeedle ==
    (called # "none" /\ needle = <<>>) => (ret.kind = "ptr" /\ ret.off = 0)

\* C5: no two hits of a scan lie in the same line, no line is emitted twice,
\* and after a hit the cursor is past the line of the hit.
C5_OneHitPerLine ==
    /\ \A i, j \in 1 .. Len(hits) :
         i < j => LineOf(haystack, hits[i]) # LineOf(haystack, hits[j])
    /\ \A i, j \in 1 .. Len(emitted) : i < j => emitted[i] # emitted[j]
    /\ Len(hits) = numHits

\* C6: the scan ends: the hit offsets strictly increase from one hit to the
\* next, so the matcher is called at most once per byte before it reports
\* not-found.
C6_CursorIncreases ==
    /\ \A i \in 1 .. (Len(hits) - 1) : hits[i] < hits[i + 1]
    /\ numHits <= Len(haystack) + 1

\* C7: with a non-empty needle without a newline and a matcher that returns
\* the first occurrence in [cursor, end), a finished scan has emitted exactly
\* the lines holding an occurrence, each once and in increasing order (full
\* mode), has counted them in numHits (both modes), and exits 0 iff there is one.
C7_EnumeratesMatchingLines ==
    (/\ pc = "Exhausted"
     /\ exact
     /\ needle # <<>>
     /\ ~HasByte(needle, NL))
        => LET M == MatchingLines(haystack, needle)
           IN  /\ numHits = Cardinality(M)
               /\ exitCode = (IF M = {} THEN 1 ELSE 0)
               /\ display = "ShowCountOnly" => emitted = <<>>
               /\ display = "ShowLines" =>
                    /\ Len(emitted) = Cardinality(M)
                    /\ {emitted[k] : k \in 1 .. Len(emitted)} = M
                    /\ \A k \in 1 .. (Len(emitted) - 1) :
                         emitted[k][1] < emitted[k + 1][1]

\* a finished full-mode scan with an exact matcher that emitted two lines, one
\* of them holding more than one occurrence
C7_Witness ==
    /\ pc = "Exhausted" /\ exact /\ display = "ShowLines"
    /\ needle # <<>> /\ ~HasByte(needle, NL)
    /\ Len(emitted) = 2
    /\ Cardinality(Occurrences(haystack, needle)) >= 3

\* C8: every span emitted in full mode satisfies
\* 0 <= left <= P <= right <= haystackLength, holds no newline byte, and the
\* cursor is set to right.
C8_SpanWellFormed ==
    display = "ShowLines" =>
        \A k \in 1 .. Len(emitted) :
            LET left == emitted[k][1]
                right == emitted[k][2]
                P == hits[k]
            IN  /\ 0 <= left /\ left <= P /\ P <= right /\ right <= Len(haystack)
                /\ \A m \in (left + 1) .. right : haystack[m] # NL
                /\ (k = Len(emitted) /\ pc = "Scanning") => current = right

\* C9: every index of the skip table that the call writes or reads lies inside
\* the storage reserved for the table.
C9_TableInStorage ==
    \A k \in ktouched : k < KmpCapacity(Len(needle))

C10_Table ==
    (kpc = "scan" /\ kpos = 0) =>
        /\ Len(skip) = Len(needle) + 1
        /\ SkipAt(skip, 0) = -1
        /\ \A i \in 1 .. Len(needle) : SkipAt(skip, i) = LongestBorder(needle, i)

C10_Shift ==
    kpc = "scan" => shift = LongestPrefixSuffix(needle, haystack, kpos)

C10_Result ==
    (kpc = "done" /\ kret.kind # "fault" /\ Len(needle) <= MaxLocalMemory)
        => ReturnsFirst(kret, haystack, needle)

C10_Advance ==
    /\ kpos' >= kpos
    /\ (kpc = "scan" /\ kpos # Len(haystack)) => kpos' = kpos + 1
    /\ kpc = "scan" => skip' = skip

\* C10: after preprocessing skip[0] = -1 and skip[i] is the length of the
\* longest proper prefix of needle[0..i) that is also its suffix; the scan
\* leaves the table alone, moves the haystack cursor by one byte per iteration
\* and never back; before each byte is consumed shift is the length of the
\* longest needle prefix that is a suffix of the bytes consumed; the call
\* returns the first occurrence (H = "aaaaaaab", N = "aaab": offset 4).
C10_KmpInvariant ==
    /\ [](C10_Table /\ C10_Shift /\ C10_Result)
    /\ [][C10_Advance]_vars

\* the scan of H = "aaaaaaab" for N = "aaab" has fallen back through the table
\* and returned offset 4
C10_Witness ==
    /\ haystack = ExampleHaystack /\ needle = ExampleNeedle
    /\ kpc = "done" /\ kret.kind = "ptr" /\ kret.off = 4
    /\ ktouched = 0 .. 4

\* ---------------------------------------------------------------------------
\* searchBoyerMooreHorspool, one loop iteration per step
\* ---------------------------------------------------------------------------

MaxBmhHayLen == 5
MaxBmhNeedleLen == 3
BmhBytes == {97, 98, 99}

BmhInit ==
    /\ haystack \in SeqsUpTo(BmhBytes, MaxBmhHayLen)
    /\ needle \in SeqsUpTo(BmhBytes, MaxBmhNeedleLen)
    /\ bmhPos = 0 /\ bmhLen = 0 /\ bmhPc = "entry" /\ bmhRet = Null({})
    /\ IdleMatch /\ IdleScan /\ IdleKmp /\ IdleBitap /\ IdleRk

BmhFrame ==
    UNCHANGED <<haystack, needle, matchVars, scanVars, kmpVars, bitapVars, rkVars>>

\* the haystack byte aligned with the needle's last position
BmhMarker == Byte(haystack, bmhPos + (Len(needle) - 1))

\* haystackLength < needleLength: return NULL
BmhTooShort ==
    /\ bmhPc = "entry"
    /\ Len(haystack) < Len(needle)
    /\ bmhPc' = "done"
    /\ bmhRet' = Null({})
    /\ UNCHANGED <<bmhPos, bmhLen>>
    /\ BmhFrame

\* needleLength == 0: return haystack
BmhEmptyNeedle ==
    /\ bmhPc = "entry"
    /\ Len(haystack) >= Len(needle)
    /\ Len(needle) = 0
    /\ bmhPc' = "done"
    /\ bmhRet' = Ptr(0, {})
    /\ UNCHANGED <<bmhPos, bmhLen>>
    /\ BmhFrame

\* the table is built; the walk through the haystack starts
BmhEnter ==
    /\ bmhPc = "entry"
    /\ Len(haystack) >= Len(needle)
    /\ Len(needle) > 0
    /\ bmhPc' = "scan"
    /\ bmhPos' = 0
    /\ bmhLen' = Len(haystack)
    /\ UNCHANGED bmhRet
    /\ BmhFrame

\* one iteration of the while loop: compare right to left, return or jump
BmhStep ==
    /\ bmhPc = "scan"
    /\ bmhLen >= Len(needle)
    /\ LET lastPos == Len(needle) - 1
           i       == BmhCompare(haystack, bmhPos, needle, lastPos)
           rd      == bmhRet.reads \cup
                        ((bmhPos + (IF i = -1 THEN 0 ELSE i)) .. (bmhPos + lastPos))
           jump    == BmhSkip(needle)[BmhMarker]
       IN  IF i = -1
           THEN /\ bmhPc' = "done"
                /\ bmhRet' = Ptr(bmhPos, rd)
                /\ UNCHANGED <<bmhPos, bmhLen>>
           ELSE IF jump > bmhLen
           THEN /\ bmhPc' = "fault"
                /\ bmhRet' = Fault(rd)
                /\ UNCHANGED <<bmhPos, bmhLen>>
           ELSE /\ bmhPos' = bmhPos + jump
                /\ bmhLen' = bmhLen - jump
                /\ bmhRet' = Null(rd)
                /\ UNCHANGED bmhPc
    /\ BmhFrame

\* haystackLength < needleLength after a jump: return NULL
BmhNotFound ==
    /\ bmhPc = "scan"
    /\ bmhLen < Len(needle)
    /\ bmhPc' = "done"
    /\ UNCHANGED <<bmhPos, bmhLen, bmhRet>>
    /\ BmhFrame

BmhNext ==
    \/ BmhTooShort
    \/ BmhEmptyNeedle
    \/ BmhEnter
    \/ BmhStep
    \/ BmhNotFound

BmhSpec == BmhInit /\ [][BmhNext]_vars

SetMax(S) == CHOOSE x \in S : \A y \in S : x >= y

\* the distance from the rightmost occurrence of byte b among N[0 .. lim-1] to
\* N's last position, Len(N) when b does not occur there
DistanceToLast(N, b, lim) ==
    LET at == {k \in 0 .. (lim - 1) : Byte(N, k) = b}
    IN  IF at = {} THEN Len(N) ELSE (Len(N) - 1) - SetMax(at)

\* when the walk starts, the table counts occurrences anywhere in the needle
C11_TableWholeNeedle ==
    (bmhPc = "scan" /\ bmhPos = 0) =>
        LET tab == BmhSkip(needle)
        IN  \A b \in 0 .. (NumChar - 1) :
                tab[b] = DistanceToLast(needle, b, Len(needle))

\* when the walk starts, the table counts occurrences before the needle's last
\* position only
C11_Table ==
    (bmhPc = "scan" /\ bmhPos = 0) =>
        LET tab == BmhSkip(needle)
        IN  /\ DOMAIN tab = 0 .. (NumChar - 1)
            /\ \A b \in 0 .. (NumChar - 1) :
                    tab[b] = DistanceToLast(needle, b, Len(needle) - 1)

\* the remaining length is the distance to the haystack's end: no underflow
C11_Remaining ==
    /\ bmhPc # "fault"
    /\ bmhPc = "scan" => bmhLen >= 0 /\ bmhPos + bmhLen = Len(haystack)

\* no occurrence starts before the window, and the result is the first one
C11_NoSkip ==
    /\ (bmhPc = "scan" /\ Len(needle) >= 1) =>
          \A o \in 0 .. (bmhPos - 1) : ~Occurs(haystack, needle, o)
    /\ (bmhPc = "done" /\ Len(needle) >= 1) =>
          ReturnsFirst(bmhRet, haystack, needle)

\* a mismatch moves the window by the marker's entry, between 1 and needleLength
C11_Advance ==
    (bmhPc = "scan" /\ bmhPc' = "scan") =>
        /\ bmhPos' - bmhPos = BmhSkip(needle)[BmhMarker]
        /\ bmhPos' - bmhPos >= 1
        /\ bmhPos' - bmhPos <= Len(needle)
        /\ bmhLen' = bmhLen - (bmhPos' - bmhPos)

\* C11 as stated: the table maps each byte to the distance from its rightmost
\* occurrence in the whole needle to the last position (needleLength if
\* absent), the remaining length never underflows and no occurrence is skipped.
C11_AsStated == C11_TableWholeNeedle /\ C11_Remaining /\ C11_NoSkip

\* C11: the 256-entry table maps each byte value to the distance from its
\* rightmost occurrence among the needle's bytes before the last position to
\* the last position (needleLength if it does not occur there); on every
\* mismatch the window advances by the entry of the haystack byte aligned with
\* the needle's last position, by at least 1 and at most needleLength; the
\* remaining length never underflows; no window start at which the needle
\* occurs is skipped.
C11_ShiftSafety ==
    /\ [](C11_Table /\ C11_Remaining /\ C11_NoSkip)
    /\ [][C11_Advance]_vars

\* a needle whose last byte also occurs earlier was found behind a window that
\* was advanced past (H = "..aba" style: first occurrence at offset >= 2)
C11_Witness ==
    /\ bmhPc = "done" /\ bmhRet.kind = "ptr" /\ bmhRet.off >= 2
    /\ Len(needle) >= 2
    /\ \E k \in 0 .. (Len(needle) - 2) : Byte(needle, k) = Byte(needle, Len(needle) - 1)

\* ---------------------------------------------------------------------------
\* searchBitap, one haystack byte per step
\* ---------------------------------------------------------------------------

MaxBitapHayLen == 5
MaxBitapNeedleLen == 3
BitapBytes == {97, 98, 99}

\* needle lengths around MaxBitWidth
BitapLongLengths == (MaxBitWidth - 1) .. (MaxBitWidth + 2)

\* "abab.." of length n, and the same with its last byte replaced
BitapLongNeedles(n) == {LongNeedle(n), [LongNeedle(n) EXCEPT ![n] = 99]}

\* "abab.." of length n behind up to two bytes and before up to one
BitapLongHaystacks(n) ==
    {(pre \o LongNeedle(n)) \o suf :
        pre \in SeqsUpTo(BitapBytes, 2), suf \in SeqsUpTo(BitapBytes, 1)}

BitapInit ==
    /\ \/ /\ haystack \in SeqsUpTo(BitapBytes, MaxBitapHayLen)
          /\ needle \in SeqsUpTo(BitapBytes, MaxBitapNeedleLen)
       \/ \E n \in BitapLongLengths :
            /\ needle \in BitapLongNeedles(n)
            /\ haystack \in BitapLongHaystacks(n)
    /\ bitapState = {} /\ bitapPos = 0 /\ bitapPc = "entry" /\ bitapRet = Null({})
    /\ IdleMatch /\ IdleScan /\ IdleKmp /\ IdleBmh /\ IdleRk

BitapFrame ==
    UNCHANGED <<haystack, needle, matchVars, scanVars, kmpVars, bmhVars, rkVars>>

\* haystackLength < needleLength: return NULL
BitapTooShort ==
    /\ bitapPc = "entry"
    /\ Len(haystack) < Len(needle)
    /\ bitapPc' = "done"
    /\ bitapRet' = Null({})
    /\ UNCHANGED <<bitapState, bitapPos>>
    /\ BitapFrame

\* needleLength == 0: return haystack
BitapEmptyNeedle ==
    /\ bitapPc = "entry"
    /\ Len(haystack) >= Len(needle)
    /\ Len(needle) = 0
    /\ bitapPc' = "done"
    /\ bitapRet' = Ptr(0, {})
    /\ UNCHANGED <<bitapState, bitapPos>>
    /\ BitapFrame

\* needleLength > MaxBitWidth: return searchNative(...)
BitapDelegate ==
    /\ bitapPc = "entry"
    /\ Len(haystack) >= Len(needle)
    /\ Len(needle) > MaxBitWidth
    /\ \E pad \in Pads :
         bitapRet' = searchNative(haystack \o pad, 0, Len(haystack), needle)
    /\ bitapPc' = "delegated"
    /\ UNCHANGED <<bitapState, bitapPos>>
    /\ BitapFrame

\* the masks are built; state = ~1
BitapEnter ==
    /\ bitapPc = "entry"
    /\ Len(haystack) >= Len(needle)
    /\ Len(needle) > 0
    /\ Len(needle) <= MaxBitWidth
    /\ bitapPc' = "scan"
    /\ bitapState' = AllOnes \ {0}
    /\ bitapPos' = 0
    /\ UNCHANGED bitapRet
    /\ BitapFrame

\* one iteration of the while loop: update the state, return or move on
BitapStep ==
    /\ bitapPc = "scan"
    /\ bitapPos # Len(haystack)
    /\ LET st == BitapUpdate(bitapState, BitapMasks(needle), Byte(haystack, bitapPos))
           rd == bitapRet.reads \cup {bitapPos}
       IN  /\ bitapState' = st
           /\ IF Len(needle) \notin st
              THEN /\ bitapPc' = "done"
                   /\ bitapRet' = Ptr((bitapPos - Len(needle)) + 1, rd)
                   /\ UNCHANGED bitapPos
              ELSE /\ bitapPos' = bitapPos + 1
                   /\ bitapRet' = Null(rd)
                   /\ UNCHANGED bitapPc
    /\ BitapFrame

\* haystack == haystackEnd: return NULL
BitapNotFound ==
    /\ bitapPc = "scan"
    /\ bitapPos = Len(haystack)
    /\ bitapPc' = "done"
    /\ UNCHANGED <<bitapState, bitapPos, bitapRet>>
    /\ BitapFrame

BitapNext ==
    \/ BitapTooShort
    \/ BitapEmptyNeedle
    \/ BitapDelegate
    \/ BitapEnter
    \/ BitapStep
    \/ BitapNotFound

BitapSpec == BitapInit /\ [][BitapNext]_vars

\* the scan loop ran for this call (needle of 1 .. MaxBitWidth bytes)
BitapScanned ==
    /\ bitapPc \in {"scan", "done"}
    /\ Len(needle) >= 1 /\ Len(needle) <= MaxBitWidth
    /\ Len(haystack) >= Len(needle)

\* the offset of the haystack byte of the latest update, -1 before the first
BitapLastByte == IF bitapRet.kind = "ptr" THEN bitapPos ELSE bitapPos - 1

\* mask[b] has bit i cleared iff needle[i] = b
C12_Masks ==
    (BitapScanned /\ bitapPos = 0) =>
        LET masks == BitapMasks(needle)
        IN  /\ DOMAIN masks = 0 .. (AlphabetSize - 1)
            /\ \A b \in 0 .. (AlphabetSize - 1) :
                  masks[b] = AllOnes \ {i \in 0 .. (Len(needle) - 1) : Byte(needle, i) = b}

\* after the update for byte j, bit i+1 is 0 iff needle[0..i] = haystack[j-i..j]
C12_State ==
    (BitapScanned /\ BitapLastByte >= 0) =>
        \A i \in 0 .. (Len(needle) - 1) :
            ((i + 1) \notin bitapState) <=>
                /\ BitapLastByte - i >= 0
                /\ \A k \in 0 .. i :
                      Byte(needle, k) = Byte(haystack, (BitapLastByte - i) + k)

\* bit needleLength is 0 exactly when an occurrence ends at j; none ends before
\* the cursor while the scan runs; the result is the first occurrence
C12_Exact ==
    /\ (BitapScanned /\ BitapLastByte >= 0) =>
          ((Len(needle) \notin bitapState) <=>
              Occurs(haystack, needle, (BitapLastByte - Len(needle)) + 1))
    /\ (BitapScanned /\ bitapPc = "scan") =>
          \A o \in 0 .. Len(haystack) :
              Occurs(haystack, needle, o) => (o + Len(needle)) - 1 >= bitapPos
    /\ (BitapScanned /\ bitapPc = "done") =>
          /\ ReturnsFirst(bitapRet, haystack, needle)
          /\ bitapRet.kind = "ptr" => bitapRet.off = (BitapLastByte - Len(needle)) + 1

\* a needle longer than MaxBitWidth gets searchNative's result, and only it
C12_Delegated ==
    /\ bitapPc = "delegated" =>
          /\ Len(needle) > MaxBitWidth
          /\ bitapRet.kind # "fault"
          /\ \A pad \in Pads :
                LET r == searchNative(haystack \o pad, 0, Len(haystack), needle)
                IN  r.kind = bitapRet.kind /\ r.off = bitapRet.off
    /\ (Len(needle) > MaxBitWidth /\ Len(haystack) >= Len(needle)) =>
          bitapPc \in {"entry", "delegated"}

\* C12: for every needle with 1 <= needleLength <= wordBits - 1, mask[b] has
\* bit i cleared iff needle[i] = b; after the update for haystack byte j, bit
\* i+1 of state is 0 iff needle[0..i] equals haystack[j-i..j]; the bit at
\* position needleLength is 0 exactly when an occurrence ends at j, the first
\* such j gives the returned offset j - needleLength + 1, with no false
\* positive and no missed occurrence; a longer needle returns what searchNative
\* returns on the same inputs.
C12_BitapInvariant == C12_Masks /\ C12_State /\ C12_Exact /\ C12_Delegated

\* a needle of exactly MaxBitWidth bytes was found at offset 1 through the
\* word's top bit
C12_Witness ==
    /\ Len(needle) = MaxBitWidth
    /\ bitapPc = "done" /\ bitapRet.kind = "ptr" /\ bitapRet.off = 1
    /\ bitapState \cap {0, MaxBitWidth} = {}

\* ---------------------------------------------------------------------------
\* searchRabinKarp, one window per step
\* ---------------------------------------------------------------------------

MaxRkHayLen == 5
MaxRkNeedleLen == 3

\* "abbac" holds the window "bb" whose sum is that of "ac"
DecoyHaystack == <<97, 98, 98, 97, 99>>
DecoyNeedle == <<97, 99>>

RkInit ==
    /\ \/ /\ haystack \in SeqsUpTo(Bytes, MaxRkHayLen)
          /\ needle \in SeqsUpTo(Bytes, MaxRkNeedleLen)
       \/ /\ haystack = DecoyHaystack
          /\ needle = DecoyNeedle
    /\ \E pad \in Pads : rkMem = haystack \o pad
    /\ rkHashNeedle = 0 /\ rkHashHaystack = 0 /\ rkPos = 0 /\ rkPc = "entry"
    /\ rkRet = Null({})
    /\ IdleMatch /\ IdleScan /\ IdleKmp /\ IdleBmh /\ IdleBitap

RkFrame ==
    UNCHANGED <<haystack, needle, rkMem, matchVars, scanVars, kmpVars, bmhVars, bitapVars>>

\* one byte beyond the last position where a match can begin
RkHaystackEnd == (Len(haystack) - Len(needle)) + 1

\* memchr(haystack, *needle, haystackLength)
RkFirst == memchr(rkMem, 0, Byte(needle, 0), Len(haystack))

\* haystackLength < needleLength: return NULL
RkTooShort ==
    /\ rkPc = "entry"
    /\ Len(haystack) < Len(needle)
    /\ rkPc' = "done"
    /\ rkRet' = Null({})
    /\ UNCHANGED <<rkHashNeedle, rkHashHaystack, rkPos>>
    /\ RkFrame

\* needleLength == 0: return haystack
RkEmptyNeedle ==
    /\ rkPc = "entry"
    /\ Len(haystack) >= Len(needle)
    /\ Len(needle) = 0
    /\ rkPc' = "done"
    /\ rkRet' = Ptr(0, {})
    /\ UNCHANGED <<rkHashNeedle, rkHashHaystack, rkPos>>
    /\ RkFrame

\* memchr finds no first byte: return NULL
RkNoFirstByte ==
    /\ rkPc = "entry"
    /\ Len(haystack) >= Len(needle)
    /\ Len(needle) > 0
    /\ RkFirst = -1
    /\ rkPc' = "done"
    /\ rkRet' = Null(memchrReads(0, Len(haystack), -1))
    /\ UNCHANGED <<rkHashNeedle, rkHashHaystack, rkPos>>
    /\ RkFrame

\* memchr finds the first byte; the hashes of the needle and of the window
\* there are summed up, unless a byte of the window is 0 (return NULL) or lies
\* behind the memory
RkEnter ==
    /\ rkPc = "entry"
    /\ Len(haystack) >= Len(needle)
    /\ Len(needle) > 0
    /\ RkFirst # -1
    /\ LET p   == RkFirst
           n   == Len(needle)
           ini == RabinKarpInit(rkMem, p, n, 0)
           rd  == memchrReads(0, Len(haystack), p) \cup (p .. ((p + ini.cnt) - 1))
       IN  IF ini.st = "fault"
           THEN /\ rkPc' = "fault"
                /\ rkRet' = Fault(rd)
                /\ UNCHANGED <<rkHashNeedle, rkHashHaystack, rkPos>>
           ELSE IF ini.st = "null"
           THEN /\ rkPc' = "done"
                /\ rkRet' = Null(rd)
                /\ UNCHANGED <<rkHashNeedle, rkHashHaystack, rkPos>>
           ELSE /\ rkPc' = "scan"
                /\ rkPos' = p
                /\ rkHashNeedle' = HashSum(needle, 0, n)
                /\ rkHashHaystack' = HashSum(rkMem, p, n)
                /\ rkRet' = Null(rd)
    /\ RkFrame

\* identical hash and memcmp == 0: return haystack
RkHit ==
    /\ rkPc = "scan"
    /\ rkPos # RkHaystackEnd
    /\ rkHashHaystack = rkHashNeedle
    /\ memcmpEq(rkMem, rkPos, needle, 0, Len(needle))
    /\ rkPc' = "done"
    /\ rkRet' = Ptr(rkPos, rkRet.reads \cup (rkPos .. ((rkPos + Len(needle)) - 1)))
    /\ UNCHANGED <<rkHashNeedle, rkHashHaystack, rkPos>>
    /\ RkFrame

\* no hit at this window: update the hash and move on
RkRoll ==
    /\ rkPc = "scan"
    /\ rkPos # RkHaystackEnd
    /\ ~(rkHashHaystack = rkHashNeedle /\ memcmpEq(rkMem, rkPos, needle, 0, Len(needle)))
    /\ LET n  == Len(needle)
           rd == IF rkHashHaystack = rkHashNeedle
                 THEN rkRet.reads \cup (rkPos .. ((rkPos + n) - 1)) ELSE rkRet.reads
       IN  IF rkPos + n >= Len(rkMem)
           THEN /\ rkPc' = "fault"
                /\ rkRet' = Fault(rd)
                /\ UNCHANGED <<rkHashHaystack, rkPos>>
           ELSE /\ rkHashHaystack' = (rkHashHaystack + SChar(Byte(rkMem, rkPos + n)))
                                         - SChar(Byte(rkMem, rkPos))
                /\ rkPos' = rkPos + 1
                /\ rkRet' = Null(rd \cup {rkPos + n, rkPos})
                /\ UNCHANGED rkPc
    /\ UNCHANGED rkHashNeedle
    /\ RkFrame

\* haystack == haystackEnd: return NULL
RkNotFound ==
    /\ rkPc = "scan"
    /\ rkPos = RkHaystackEnd
    /\ rkPc' = "done"
    /\ UNCHANGED <<rkHashNeedle, rkHashHaystack, rkPos, rkRet>>
    /\ RkFrame

RkNext ==
    \/ RkTooShort
    \/ RkEmptyNeedle
    \/ RkNoFirstByte
    \/ RkEnter
    \/ RkHit
    \/ RkRoll
    \/ RkNotFound

RkSpec == RkInit /\ [][RkNext]_vars

\* the scan loop runs or ran for this call
RkScanned == Len(needle) >= 1 /\ Len(haystack) >= Len(needle)

\* a window of H with N's byte sum and other bytes
HasDecoy(H, N) ==
    \E o \in 0 .. (Len(H) - Len(N)) :
        HashSum(H, o, Len(N)) = HashSum(N, 0, Len(N)) /\ ~Occurs(H, N, o)

\* at every comparison the hashes are the sums of the needle and of the window
C13_Hash ==
    rkPc = "scan" =>
        /\ rkPos + Len(needle) <= Len(rkMem)
        /\ rkHashNeedle = HashSum(needle, 0, Len(needle))
        /\ rkHashHaystack = HashSum(rkMem, rkPos, Len(needle))

\* the hash is rolled by adding the incoming and subtracting the outgoing byte
C13_Roll ==
    (rkPc = "scan" /\ rkPc' = "scan") =>
        /\ rkPos' = rkPos + 1
        /\ rkHashHaystack' = (rkHashHaystack + SChar(Byte(rkMem, rkPos + Len(needle))))
                                 - SChar(Byte(rkMem, rkPos))

\* a window is returned only if its bytes are the needle's
C13_Verified ==
    (RkScanned /\ rkPc = "done" /\ rkRet.kind = "ptr") =>
        memcmpEq(rkMem, rkRet.off, needle, 0, Len(needle))

\* with a decoy in H the call ends with the first occurrence or with NULL
C13_DecoyResult ==
    (RkScanned /\ HasDecoy(haystack, needle)) =>
        /\ rkPc # "fault"
        /\ rkPc = "done" => ReturnsFirst(rkRet, haystack, needle)

\* C13: at every comparison the rolling hash is the plain sum of the
\* needleLength bytes of the current window; a window with the needle's hash is
\* returned only after a full comparison succeeds; for every H and N with a
\* decoy window (same byte sum, other bytes) the result is the first true
\* occurrence of N in H, or not-found when there is none.
C13_CollisionRejection == C13_Hash /\ C13_Verified /\ C13_DecoyResult

====
